---- MODULE Spec2Model ----
(***************************************************************************)
(* Diagram identity and lifecycle of the Mermaid add-in.                   *)
(*                                                                         *)
(* The presentation host (PowerPoint) and the document host (Word) are     *)
(* modelled as the document state the add-in reads and writes through the  *)
(* Office scripting surface: slides and their shapes with tags, the        *)
(* selection, inline pictures with their alt text, the registered          *)
(* selection-change handlers and the collection of custom XML parts.       *)
(* Every host round trip of the add-in (context.sync, setSelectedDataAsync,*)
(* addHandlerAsync, ...) either succeeds or fails; a failed round trip     *)
(* applies none of the operations queued for it.                           *)
(*                                                                         *)
(*   Spec       presentation host: insertDiagram, updateDiagram,           *)
(*              getSelectedDiagram and the user's selection changes        *)
(*   SpecWord   document host: the WordInserter                            *)
(*   SpecCodec  the record encoding and its two decoders                   *)
(*   SpecSize   the document host's size planner and its rasterizer        *)
(*   SpecMatch  the geometry matcher of the presentation host             *)
(*   SpecTest   presentation host: the storage test of the debug panel    *)
(***************************************************************************)
EXTENDS Integers, Sequences, FiniteSets, TLC

VARIABLES
  host,         \* "PowerPoint" | "Word" | "Codec": which specification runs
  parts,        \* the document's customXmlParts, in collection order
  slides,       \* PowerPoint: slide index -> sequence of shapes (z-order)
  selSlide,     \* PowerPoint: the selected slide, 0 when none
  selShapes,    \* PowerPoint: uids of the selected shapes
  nextId,       \* next diagram id generateDiagramId / generateId hands out
  nextUid,      \* next shape / picture identity the host hands out
  calls,        \* PowerPoint: the add-in calls in flight, per async flow
  nCalls,       \* add-in calls started so far
  gsd,          \* result of the last getSelectedDiagram call
  wi,           \* Word: the WordInserter's fields and the host's handler list
  pictures,     \* Word: the inline pictures of the document body
  selPic,       \* Word: uid of the selected inline picture, 0 when none
  wcall,        \* Word: the WordInserter call in flight
  codec,        \* SpecCodec: the text under test and what was read back
  pane,         \* the task pane's settings state and its settings calls
  sizer,        \* SpecSize: the arguments and results of the size planner
  matcher       \* SpecMatch: two geometry descriptors and the matcher's answers

vars == <<host, parts, slides, selSlide, selShapes, nextId, nextUid, calls,
          nCalls, gsd, wi, pictures, selPic, wcall, codec, pane, sizer, matcher>>

ppVars == <<slides, selSlide, selShapes, calls>>
wordVars == <<wi, pictures, selPic, wcall>>

----------------------------------------------------------------------------
(* Bounds *)

MaxIds == 2        \* diagram ids handed out in one run
MaxCalls == 2      \* insert and update calls started in one run
NumSlides == 2     \* slides of the presentation
MaxLen == 3        \* longest source text SpecCodec enumerates

----------------------------------------------------------------------------
(* Source texts.  A text is a sequence of symbols; the symbols that matter *)
(* to the encoding stand for the character sequences they name.           *)

CDEND == "]]>"            \* the CDATA terminator
CODECLOSE == "</Code>"    \* the closing tag that follows the wrapper
Sym == {"a", "\n", "\"", "<", "&", CDEND, CODECLOSE}

RECURSIVE SeqsUpTo(_, _)
SeqsUpTo(S, n) ==
  IF n = 0 THEN {<<>>}
  ELSE LET shorter == SeqsUpTo(S, n - 1)
       IN shorter \cup {Append(t, x) : t \in {u \in shorter : Len(u) = n - 1}, x \in S}

Texts == SeqsUpTo(Sym, MaxLen)

\* the texts the host state machines insert and update with
PlainCode == <<"a", "\n", "<">>
TermCode == <<"a", CDEND, "a">>
CloseCode == <<"a", CDEND, CODECLOSE>>
Codes == {PlainCode, TermCode}          \* presentation host, insertDiagram
NewCode == <<"<", "a">>                 \* the edited text updateDiagram stores
WordCodes == {PlainCode, CloseCode}     \* document host

SETTINGSTAG == "<MermaidSettings>"
MarkerCode == <<"a", SETTINGSTAG>>      \* a text that quotes the settings tag

NoCode == <<"(no Code element)">>
NoId == -1                \* querySelector('Id') found no element
NoTag == -1               \* the shape / picture carries no diagram id
GenIds == 1..MaxIds       \* the ids generateDiagramId / generateId hand out
ForeignId == MaxIds + 1   \* an id the add-in never generated
AllIds == GenIds \cup {ForeignId}

----------------------------------------------------------------------------
(* Settings.  Of the ten values of MermaidSettings the two that loadSettings *)
(* converts in different ways: fontFamily (a string, CDATA) and fontSize (a  *)
(* number, parseInt).                                                       *)

DefaultFontSize == 16
MinFontSize == 12         \* the range input of the Settings panel
MaxFontSize == 24

defaultSettings == [fontFamily |-> "Arial, sans-serif", fontSize |-> DefaultFontSize]

\* what the Settings panel can hand to saveSettings
PanelSettings ==
  {[fontFamily |-> "Georgia, serif", fontSize |-> MinFontSize],
   [fontFamily |-> "Courier New, monospace", fontSize |-> MaxFontSize]}

NoSettings == [fontFamily |-> "", fontSize |-> 0]   \* a block without the elements

PaneIdle ==
  [settings |-> defaultSettings,  \* MermaidEditor's settings state
   op |-> "none",                 \* none | save | load | list | create
   outcome |-> "none",            \* none | success | error
   swallowed |-> FALSE,           \* a part could not be read and was skipped
   listed |-> 0,                  \* listAllStoredDiagrams: mermaidDiagramCount
   saves |-> 0,                   \* saveSettings calls so far
   inserter |-> "none",           \* what createDiagramInserter returned last
   created |-> 0]                 \* inserters constructed so far

----------------------------------------------------------------------------
(* Metadata blocks.  A block is the XML text the add-in hands to           *)
(* customXmlParts.add, kept as its fields: the root element, the Id text,  *)
(* the source text placed verbatim between <![CDATA[ and ]]>, and which of *)
(* the optional elements the template writes.                              *)

Block(root, id, code, shapeTagged, shapeInfo, createdAt, updatedAt) ==
  [root |-> root, id |-> id, code |-> code, shapeTagged |-> shapeTagged,
   shapeInfo |-> shapeInfo, createdAt |-> createdAt, updatedAt |-> updatedAt,
   settings |-> NoSettings]

\* a template that writes <ShapeTagged>true</ShapeTagged> whatever happened
BlockClaimingTag(id, code, tagged) ==
  Block("MermaidDiagram", id, code, "true", FALSE, TRUE, FALSE)

\* storeDiagramDataAfterInsertion's template
BlockAfterInsertion(id, code, tagged) ==
  Block("MermaidDiagram", id, code, IF tagged THEN "true" ELSE "false",
        FALSE, TRUE, FALSE)

\* storeDiagramData's template (alternate placement)
BlockWithShapeInfo(id, code) ==
  Block("MermaidDiagram", id, code, "absent", TRUE, TRUE, FALSE)

\* updateDiagramData's template
BlockUpdated(id, code) ==
  Block("MermaidDiagram", id, code, "true", FALSE, FALSE, TRUE)

\* WordInserter.storeDiagramMetadata's template
BlockWord(id, code) ==
  Block("MermaidDiagram", id, code, "absent", FALSE, TRUE, FALSE)

\* a block some other add-in left in the document: it has an Id and a Code
\* element but not the MermaidDiagram root
ForeignBlock == Block("Other", ForeignId, <<"a">>, "absent", FALSE, FALSE, FALSE)

IsDiagramRecord(b) == b.root = "MermaidDiagram"

RECURSIVE FirstIndex(_, _, _)
\* least i >= from with P-symbol at position i, 0 when none
FirstIndex(t, x, from) ==
  IF from > Len(t) THEN 0
  ELSE IF t[from] = x THEN from
  ELSE FirstIndex(t, x, from + 1)

Contains(t, x) == FirstIndex(t, x, 1) # 0

\* The template does not escape the text: a ]]> in it ends the CDATA section
\* early and leaves a ]]> in character data, which XML forbids.
WellFormed(b) == ~Contains(b.code, CDEND)

\* What DOMParser.parseFromString(xml, 'text/xml') gives querySelector.  On a
\* malformed block a parser either replaces the document by a parsererror
\* document (strict) or keeps what it had built when the error was met
\* (lenient): which one is the platform's choice.
DomId(b, lenient) ==
  IF WellFormed(b) \/ lenient THEN b.id ELSE NoId

DomCode(b, lenient) ==
  IF WellFormed(b) THEN b.code
  ELSE IF lenient THEN SubSeq(b.code, 1, FirstIndex(b.code, CDEND, 1) - 1)
  ELSE NoCode

RECURSIVE FirstCloser(_, _)
\* least i >= from where the text reads ]]></Code>, 0 when nowhere
FirstCloser(t, from) ==
  IF from + 1 > Len(t) THEN 0
  ELSE IF t[from] = CDEND /\ t[from + 1] = CODECLOSE THEN from
  ELSE FirstCloser(t, from + 1)

\* xml.value.match(/<Code><!\[CDATA\[([\s\S]*?)\]\]><\/Code>/)[1]: the lazy
\* group ends at the first ]]></Code> of the block
WordRegexCode(b) ==
  LET i == FirstCloser(b.code, 1)
  IN IF i = 0 THEN b.code ELSE SubSeq(b.code, 1, i - 1)

\* xml.value.includes('<MermaidDiagram>') && xml.value.includes(`<Id>${id}</Id>`)
WordGetMatches(b, id) == b.root = "MermaidDiagram" /\ b.id = id

\* WordInserter.updateDiagram: xml.value.includes(`<Id>${diagramId}</Id>`)
WordUpdateMatches(b, id) == b.id = id

\* the least element of a set of indices, 0 when it is empty: the part a scan
\* `for (i = 0; i < items.length; i++)` stops at
MinOrZero(S) == IF S = {} THEN 0 ELSE CHOOSE i \in S : \A j \in S : i <= j

RemoveAt(s, i) == SubSeq(s, 1, i - 1) \o SubSeq(s, i + 1, Len(s))

RecordsOf(ps, id) == {i \in 1..Len(ps) : IsDiagramRecord(ps[i]) /\ ps[i].id = id}

----------------------------------------------------------------------------
(* Presentation host: state *)

Slots == {1, 2}       \* async flows of the task pane that can hold a call
SeqSlots == {1}       \* the flows Spec drives: one add-in call at a time

\* left, top, width and height of a shape, as one value: where and how large
\* insertDiagram places an image (imageLeft 50, imageTop 50, the PNG's size),
\* and any other position or size, which is where the user put the shape
PlacedGeo == "placed"
MovedGeo == "moved"
Geos == {PlacedGeo, MovedGeo}

Shape(uid, tag, geo) == [uid |-> uid, tag |-> tag, geo |-> geo]

ShapeUids(s) == IF s = 0 THEN {} ELSE {slides[s][i].uid : i \in 1..Len(slides[s])}

AllShapes == UNION {{slides[s][i] : i \in 1..Len(slides[s])} : s \in 1..NumSlides}

ShapeByUid(u) == CHOOSE sh \in AllShapes : sh.uid = u

IdleCall ==
  [op |-> "none", pc |-> "idle", id |-> NoId, code |-> <<>>,
   placed |-> 0,          \* uid of the artifact the primary placement made
   placed2 |-> 0,         \* uid of the artifact the alternate placement made
   tagged |-> FALSE,      \* storeDiagramDataAfterInsertion's shapeTagged
   tagThrew |-> FALSE,    \* tags.add / its sync threw in this call
   persistFailed |-> FALSE, \* an artifact was placed and storing then failed
   target |-> 0,          \* updateDiagram: uid of the shape found by tag
   targetSlide |-> 0,     \* the slide that shape was on
   targetGeo |-> PlacedGeo, \* targetLeft, targetTop, targetWidth, targetHeight
   outcome |-> "none",    \* none | success | instructions | error
   err |-> "none",        \* which error the caller gets
   path |-> "none",       \* primary | alternate | clipboard
   rasters |-> 0,         \* how many times the call has run svgToPng
   rasterErr |-> FALSE,   \* its first svgToPng rejected
   clean |-> TRUE]        \* no other action ran between its steps

InFlight(c) == calls[c].pc \notin {"idle", "done"}

\* Another flow, or the user, acted: every call in flight has been interleaved.
Disturbed(cs, me) ==
  [s \in Slots |->
     IF s # me /\ cs[s].pc \notin {"idle", "done"}
     THEN [cs[s] EXCEPT !.clean = FALSE] ELSE cs[s]]

Finish(call, outcome, err, path) ==
  [call EXCEPT !.pc = "done", !.outcome = outcome, !.err = err, !.path = path]

NoGsd == [kind |-> "none", id |-> NoId, code |-> <<>>]
GsdNull == [kind |-> "null", id |-> NoId, code |-> <<>>]
GsdError == [kind |-> "error", id |-> NoId, code |-> <<>>]
GsdFound(id, code) == [kind |-> "found", id |-> id, code |-> code]

WordIdle ==
  [insertionMode |-> FALSE,   \* WordInserter.insertionMode
   pending |-> FALSE,         \* pendingInsertion is not null
   pendingCode |-> <<>>,      \* pendingInsertion.mermaidCode
   handlers |-> 0,            \* DocumentSelectionChanged handlers the host holds
   removeFailed |-> FALSE,    \* the host refused the last removeHandlerAsync
   cycle |-> "none"]          \* none | awaiting | cancelled | restarted: where the
                              \* two-phase insertion stands, for the properties
WCallIdle ==
  [op |-> "none", pc |-> "idle", id |-> NoId, code |-> <<>>,
   target |-> 0,              \* updateDiagram: index of the part whose delete is queued
   outcome |-> "none",        \* none | awaiting | success | error
   err |-> "none"]
CodecIdle == [text |-> <<>>, pc |-> "idle", read |-> NoCode]
SizerIdle == [pc |-> "idle"]
MatcherIdle == [pc |-> "idle"]

Init ==
  /\ host = "PowerPoint"
  /\ parts = <<>>
  \* a deck with one shape of the user's own on the first slide
  /\ slides = [s \in 1..NumSlides |-> IF s = 1 THEN <<Shape(1, NoTag, MovedGeo)>> ELSE <<>>]
  /\ selSlide = 1
  /\ selShapes = {}
  /\ nextId = 1
  /\ nextUid = 2
  /\ calls = [c \in Slots |-> IdleCall]
  /\ nCalls = 0
  /\ gsd = NoGsd
  /\ wi = WordIdle
  /\ pictures = <<>>
  /\ selPic = 0
  /\ wcall = WCallIdle
  /\ codec = CodecIdle
  /\ pane = PaneIdle
  /\ sizer = SizerIdle
  /\ matcher = MatcherIdle

----------------------------------------------------------------------------
(* Presentation host: what the user does between the add-in's steps *)

SelectSlide(s) ==
  /\ host = "PowerPoint"
  /\ s # selSlide
  /\ selSlide' = s
  /\ selShapes' = {}
  /\ calls' = Disturbed(calls, 0)
  /\ UNCHANGED <<host, nCalls, parts, slides, nextId, nextUid, wordVars, codec, pane, sizer, matcher>>
  /\ gsd' = NoGsd

\* nothing, one shape, or (as the one case of several shapes) every shape of
\* the slide
SelectShapes(S) ==
  /\ host = "PowerPoint"
  /\ S # selShapes
  /\ Cardinality(S) <= 1 \/ S = ShapeUids(selSlide)
  /\ selShapes' = S
  /\ calls' = Disturbed(calls, 0)
  /\ UNCHANGED <<host, nCalls, parts, slides, selSlide, nextId, nextUid,
                 wordVars, codec, pane, sizer, matcher>>
  /\ gsd' = NoGsd

\* the user drags or resizes the selected shape
MoveShape(u, g) ==
  /\ host = "PowerPoint"
  /\ selShapes = {u}
  /\ ShapeByUid(u).geo # g
  /\ slides' = [s \in 1..NumSlides |->
                  [i \in 1..Len(slides[s]) |->
                     IF slides[s][i].uid = u
                     THEN [slides[s][i] EXCEPT !.geo = g] ELSE slides[s][i]]]
  /\ calls' = Disturbed(calls, 0)
  /\ UNCHANGED <<host, nCalls, parts, selSlide, selShapes, nextId, nextUid,
                 wordVars, codec, pane, sizer, matcher>>
  /\ gsd' = NoGsd

----------------------------------------------------------------------------
(* Presentation host: insertDiagram                                        *)
(*                                                                         *)
(* The call is cut where another flow or the user can change what a later  *)
(* step reads: after the primary placement (the one-second wait before the *)
(* last shape is looked up) and before the catch block that starts the     *)
(* alternate placement.  The awaits inside one step read or write nothing  *)
(* that an interleaved action could change for it.                         *)

\* Office.context.document.setSelectedDataAsync with CoercionType.Image: the
\* image becomes the topmost shape of the active slide
PlaceImage(sl, s, uid, geo) ==
  [sl EXCEPT ![s] = Append(@, Shape(uid, NoTag, geo))]

\* lastShape.tags.add('mermaid_diagram_id', id) on shapes.items[length - 1];
\* adding an existing key replaces its value
TagLastShape(sl, s, id) == [sl EXCEPT ![s][Len(sl[s])].tag = id]

\* generateDiagramId, svgToPng, then PowerPoint.run: getSelectedSlides,
\* 'No slide selected' when there is none, setSelectedDataAsync with the
\* bare base64 string.  Any failure lands in catch (apiError).
\*   render     svgToPng rejected ('Failed to load diagram image' or
\*              'Failed to convert diagram to image')
\*   placefail  a sync or setSelectedDataAsync failed
StartInsert(c, code) ==
  /\ host = "PowerPoint"
  /\ ~InFlight(c)
  /\ nCalls < MaxCalls
  /\ nextId <= MaxIds
  /\ nCalls' = nCalls + 1
  /\ nextId' = nextId + 1
  /\ \E r \in {"render", "placefail", "ok"} :
       LET call == [IdleCall EXCEPT !.op = "insert", !.id = nextId,
                                    !.code = code, !.rasters = 1,
                                    !.rasterErr = (r = "render")]
       IN IF r = "ok" /\ selSlide # 0
          THEN /\ slides' = PlaceImage(slides, selSlide, nextUid, PlacedGeo)
               /\ nextUid' = nextUid + 1
               /\ calls' = [Disturbed(calls, c) EXCEPT
                              ![c] = [call EXCEPT !.pc = "i_store",
                                                  !.placed = nextUid]]
          ELSE /\ calls' = [Disturbed(calls, c) EXCEPT
                              ![c] = [call EXCEPT !.pc = "fallback"]]
               /\ UNCHANGED <<slides, nextUid>>
  /\ gsd' = NoGsd
  /\ UNCHANGED <<host, parts, selSlide, selShapes, wordVars, codec, pane, sizer, matcher>>

\* storeDiagramDataAfterInsertion after its one-second wait.
\*   readfail        a sync before the tagging failed
\*   tag_add         shape tagged, block added
\*   tag_addfail     shape tagged, the sync of customXmlParts.add failed
\*   throw_add       tags.add or its sync threw (caught), block added
\*   throw_addfail   tags.add or its sync threw (caught), then the sync in the
\*                   catch block, the read of the shape's geometry (loaded by
\*                   the batch that failed) or the add failed
\* A failure is rethrown as 'Image inserted successfully, but metadata
\* storage failed' inside the try whose catch (apiError) starts the
\* alternate placement.
InsertStore(c) ==
  /\ calls[c].pc = "i_store"
  /\ \E r \in {"readfail", "tag_add", "tag_addfail", "throw_add", "throw_addfail"} :
       LET canTag == selSlide # 0 /\ slides[selSlide] # <<>>
           tagOk == canTag /\ r \in {"tag_add", "tag_addfail"}
           threw == canTag /\ r \in {"throw_add", "throw_addfail"}
           addOk == r \in {"tag_add", "throw_add"}
       IN IF r = "readfail"
          THEN /\ calls' = [Disturbed(calls, c) EXCEPT
                              ![c].pc = "fallback", ![c].persistFailed = TRUE]
               /\ UNCHANGED <<slides, parts>>
          ELSE /\ slides' = IF tagOk
                            THEN TagLastShape(slides, selSlide, calls[c].id)
                            ELSE slides
               /\ parts' = IF addOk
                           THEN Append(parts, BlockAfterInsertion(calls[c].id,
                                                  calls[c].code, tagOk))
                           ELSE parts
               /\ calls' = [Disturbed(calls, c) EXCEPT
                              ![c] = LET t == [@ EXCEPT !.tagged = tagOk,
                                                        !.tagThrew = threw]
                                     IN IF addOk
                                        THEN Finish(t, "success", "none", "primary")
                                        ELSE [t EXCEPT !.pc = "fallback",
                                                       !.persistFailed = TRUE]]
  /\ gsd' = NoGsd
  /\ UNCHANGED <<host, nCalls, selSlide, selShapes, nextId, nextUid,
                 wordVars, codec, pane, sizer, matcher>>

\* catch (apiError): svgToPng again, setSelectedDataAsync with the data URL,
\* storeDiagramData (no tagging; the last shape's geometry goes into
\* ShapeInfo); when any of these fails copyPngToClipboard, then the
\* 'SUCCESS: ...' error or the generic 'Failed to insert diagram. ...' error.
\*   place: the alternate placement succeeded; store: storeDiagramData
\*   succeeded; clip: the clipboard copy succeeded
\* The alternate placement runs svgToPng again, and so does
\* copyPngToClipboard.
InsertFallback(c) ==
  /\ calls[c].pc = "fallback"
  /\ \E place \in BOOLEAN, store \in BOOLEAN, clip \in BOOLEAN :
       LET placed == place /\ selSlide # 0
           stored == placed /\ store
       IN /\ slides' = IF placed THEN PlaceImage(slides, selSlide, nextUid, PlacedGeo)
                       ELSE slides
          /\ nextUid' = IF placed THEN nextUid + 1 ELSE nextUid
          /\ parts' = IF stored
                      THEN Append(parts, BlockWithShapeInfo(calls[c].id,
                                                            calls[c].code))
                      ELSE parts
          /\ calls' = [Disturbed(calls, c) EXCEPT
                         ![c] = LET t == [@ EXCEPT
                                            !.placed2 = IF placed THEN nextUid ELSE 0,
                                            !.rasters = IF stored THEN @ + 1 ELSE @ + 2,
                                            !.persistFailed = @ \/ (placed /\ ~store)]
                                IN IF stored
                                   THEN Finish(t, "success", "none", "alternate")
                                   ELSE IF clip
                                   THEN Finish(t, "instructions", "none", "clipboard")
                                   ELSE Finish(t, "error", "generic", "none")]
  /\ gsd' = NoGsd
  /\ UNCHANGED <<host, nCalls, selSlide, selShapes, nextId, wordVars, codec, pane, sizer, matcher>>

----------------------------------------------------------------------------
(* Presentation host: updateDiagram *)

\* the scan as it would be if a shape also had to be where insertDiagram
\* placed it
TaggedSlideAtPlace(id) ==
  MinOrZero({s \in 1..NumSlides :
               \E j \in 1..Len(slides[s]) :
                 slides[s][j].tag = id /\ slides[s][j].geo = PlacedGeo})

\* the scan of updateDiagram: slides in order, shapes in z-order, the first
\* shape with a tag mermaid_diagram_id = id
TaggedSlide(id) ==
  MinOrZero({s \in 1..NumSlides :
               \E j \in 1..Len(slides[s]) : slides[s][j].tag = id})

TaggedShape(id) ==
  LET s == TaggedSlide(id)
      j == MinOrZero({k \in 1..Len(slides[s]) : slides[s][k].tag = id})
  IN slides[s][j].uid

WithoutShape(sl, uid) ==
  [s \in 1..NumSlides |-> SelectSeq(sl[s], LAMBDA sh : sh.uid # uid)]

\* updateDiagramData: the first part whose Id element reads id
UpdateDataIndex(ps, id, lenient) ==
  MinOrZero({i \in 1..Len(ps) : DomId(ps[i], lenient) = id})

\* xmlPart.delete(); customXmlParts.add(updatedXmlContent); one sync
ReplacePart(ps, i, b) == Append(RemoveAt(ps, i), b)

\* the store as updateDiagramData would leave it had it run before the
\* placement
PartsWrittenFirst(ps, id, code) ==
  IF RecordsOf(ps, id) = {} THEN ps
  ELSE ReplacePart(ps, MinOrZero(RecordsOf(ps, id)), BlockUpdated(id, code))

\* the store while updateDiagram deletes the old shape and places the new
\* image: updateDiagramData is its last statement, nothing is written before
PartsDuringReplacement(ps, id, code) == ps

\* svgToPng, the scan for the tagged shape, targetShape.delete() and its
\* sync, setSelectedDataAsync at the preserved position (onto the active
\* slide).
\*   render    svgToPng rejected, nothing touched
\*   hostfail  a sync of the scan or of the delete failed, nothing touched
\*   skip      the tags could not be read: the shapes are skipped, none found
\*   placefail the old shape is deleted and the new image is not placed
\*   ok        the old shape is deleted, the new image placed
StartUpdate(c, id, code) ==
  /\ host = "PowerPoint"
  /\ ~InFlight(c)
  /\ nCalls < MaxCalls
  /\ id < nextId \/ id = ForeignId   \* ids not handed out yet all behave alike
  /\ nCalls' = nCalls + 1
  /\ \E r \in {"render", "hostfail", "skip", "placefail", "ok"} :
       LET call == [IdleCall EXCEPT !.op = "update", !.id = id, !.code = code,
                                    !.rasters = 1, !.rasterErr = (r = "render")]
           found == TaggedSlide(id) # 0 /\ r # "skip"
           deleted == found /\ r \in {"placefail", "ok"}
           placed == deleted /\ r = "ok" /\ selSlide # 0
           target == IF found THEN TaggedShape(id) ELSE 0
           geo == IF found THEN ShapeByUid(target).geo ELSE PlacedGeo
           gone == IF deleted THEN WithoutShape(slides, target) ELSE slides
       IN /\ slides' = IF placed THEN PlaceImage(gone, selSlide, nextUid, geo)
                       ELSE gone
          /\ selShapes' = IF deleted THEN selShapes \ {target} ELSE selShapes
          /\ nextUid' = IF placed THEN nextUid + 1 ELSE nextUid
          /\ calls' = [Disturbed(calls, c) EXCEPT
                         ![c] = IF r = "render"
                                  THEN Finish(call, "error", "render", "none")
                                ELSE IF r = "hostfail"
                                  THEN Finish(call, "error", "host", "none")
                                ELSE IF ~found
                                  THEN Finish(call, "error", "notfound", "none")
                                ELSE IF ~placed
                                  THEN Finish([call EXCEPT !.target = target],
                                              "error", "placement", "none")
                                ELSE [call EXCEPT !.pc = "u_retag",
                                                  !.target = target,
                                                  !.targetSlide = TaggedSlide(id),
                                                  !.targetGeo = geo,
                                                  !.placed = nextUid]]
  /\ gsd' = NoGsd
  /\ parts' = PartsDuringReplacement(parts, id, code)
  /\ UNCHANGED <<host, selSlide, nextId, wordVars, codec, pane, sizer, matcher>>

\* after 500 ms: tag the last shape of the first selected slide (every
\* failure of this step is caught and only logged), then updateDiagramData.
\* A failed sync of its delete + add is caught by the loop's catch, the scan
\* goes on and ends in 'Diagram data not found for update'.
\*   tag: the re-tagging succeeded; loaded: customXmlParts could be loaded;
\*   ok: the sync of delete + add succeeded
UpdateFinish(c) ==
  /\ calls[c].pc = "u_retag"
  /\ \E tag \in BOOLEAN, loaded \in BOOLEAN, ok \in BOOLEAN, lenient \in BOOLEAN :
       LET tagOk == tag /\ selSlide # 0 /\ slides[selSlide] # <<>>
           i == UpdateDataIndex(parts, calls[c].id, lenient)
           t == [calls[c] EXCEPT !.tagged = tagOk, !.tagThrew = ~tag]
       IN /\ slides' = IF tagOk
                       THEN TagLastShape(slides, selSlide, calls[c].id)
                       ELSE slides
          /\ parts' = IF loaded /\ i # 0 /\ ok
                      THEN ReplacePart(parts, i,
                                       BlockUpdated(calls[c].id, calls[c].code))
                      ELSE parts
          /\ calls' = [Disturbed(calls, c) EXCEPT
                         ![c] = IF ~loaded
                                  THEN Finish(t, "error", "host", "none")
                                ELSE IF i # 0 /\ ok
                                  THEN Finish(t, "success", "none", "none")
                                ELSE Finish(t, "error", "notfound", "none")]
  /\ gsd' = NoGsd
  /\ UNCHANGED <<host, nCalls, selSlide, selShapes, nextId, nextUid,
                 wordVars, codec, pane, sizer, matcher>>

----------------------------------------------------------------------------
(* Presentation host: getSelectedDiagram *)

\* The shape whose tag is read.  sel = "ok": getSelectedShapes answered;
\* sel = "throws": it threw and the catch only logged.  With no shape from
\* the selection the last shape of the first selected slide is taken.
\* 0: return null before any tag is read.
GsdShape(sel) ==
  IF sel = "ok" /\ Cardinality(selShapes) = 1
    THEN CHOOSE u \in selShapes : TRUE
  ELSE IF sel = "ok" /\ Cardinality(selShapes) > 1
    THEN 0
  ELSE IF selSlide # 0 /\ slides[selSlide] # <<>>
    THEN slides[selSlide][Len(slides[selSlide])].uid
  ELSE 0

\* the first part with an Id element equal to the tag and a Code element
GsdLookup(ps, id, lenient) ==
  LET i == MinOrZero({k \in 1..Len(ps) :
                        /\ DomId(ps[k], lenient) = id
                        /\ DomCode(ps[k], lenient) # NoCode})
  IN IF i = 0 THEN GsdNull ELSE GsdFound(id, DomCode(ps[i], lenient))

\* sel: the selection API.  store = "unreadable": reading the tags or the
\* parts' XML threw inside a try, which ends in null; store = "throws": the
\* load of customXmlParts, which is outside every try, threw
GetSelectedDiagramResult(sel, store, lenient) ==
  LET u == GsdShape(sel) IN
  IF u = 0 \/ u \notin {sh.uid : sh \in AllShapes} THEN GsdNull
  ELSE IF ShapeByUid(u).tag = NoTag \/ store = "unreadable" THEN GsdNull
  ELSE IF store = "throws" THEN GsdError
  ELSE GsdLookup(parts, ShapeByUid(u).tag, lenient)

GetSelectedDiagram ==
  /\ host = "PowerPoint"
  /\ \E sel \in {"ok", "throws"}, store \in {"ok", "unreadable", "throws"},
        lenient \in BOOLEAN :
       gsd' = GetSelectedDiagramResult(sel, store, lenient)
  /\ gsd' # gsd
  /\ calls' = Disturbed(calls, 0)
  /\ UNCHANGED <<host, nCalls, parts, slides, selSlide, selShapes, nextId, nextUid,
                 wordVars, codec, pane, sizer, matcher>>

----------------------------------------------------------------------------
(* Presentation host: specification *)

UserStep ==
  \/ \E s \in 0..NumSlides : SelectSlide(s)
  \/ \E S \in SUBSET ShapeUids(selSlide) : SelectShapes(S)

InsertStep(c) ==
  \/ \E code \in Codes : StartInsert(c, code)
  \/ InsertStore(c)
  \/ InsertFallback(c)

UpdateStep(c) ==
  \/ \E id \in AllIds : StartUpdate(c, id, NewCode)
  \/ UpdateFinish(c)

Next ==
  \/ UserStep
  \/ GetSelectedDiagram
  \/ \E c \in SeqSlots : InsertStep(c)
  \/ \E c \in SeqSlots : UpdateStep(c)

Spec == Init /\ [][Next]_vars

----------------------------------------------------------------------------
(* Presentation host: the editor's button.  handleInsert is an async       *)
(* function bound to onClick; the button is never disabled and no flag is  *)
(* checked, so a click while an earlier handleInsert is awaiting starts a  *)
(* second flow of insertDiagram or updateDiagram.                          *)

HandleInsert(c) ==
  \/ InsertStep(c)
  \/ UpdateStep(c)

NextEditor == \E c \in Slots : HandleInsert(c)

SpecEditor == Init /\ [][NextEditor]_vars

----------------------------------------------------------------------------
(* Presentation host: a deck that holds a diagram, which the user moves,  *)
(* resizes, selects and updates                                           *)

\* the deck after one insertDiagram that tagged its shape and stored its
\* record, opened in a new session of the task pane
InitMove ==
  /\ host = "PowerPoint"
  /\ \E code \in Codes : parts = <<BlockAfterInsertion(1, code, TRUE)>>
  /\ slides = [s \in 1..NumSlides |->
                IF s = 1 THEN <<Shape(1, NoTag, MovedGeo), Shape(2, 1, PlacedGeo)>>
                ELSE <<>>]
  /\ selSlide = 1
  /\ selShapes = {}
  /\ nextId = 2
  /\ nextUid = 3
  /\ calls = [c \in Slots |-> IdleCall]
  /\ nCalls = 0
  /\ gsd = NoGsd
  /\ wi = WordIdle
  /\ pictures = <<>>
  /\ selPic = 0
  /\ wcall = WCallIdle
  /\ codec = CodecIdle
  /\ pane = PaneIdle
  /\ sizer = SizerIdle
  /\ matcher = MatcherIdle

NextMove ==
  \/ UserStep
  \/ \E u \in selShapes, g \in Geos : MoveShape(u, g)
  \/ GetSelectedDiagram
  \/ \E c \in SeqSlots : UpdateStep(c)

SpecMove == InitMove /\ [][NextMove]_vars

----------------------------------------------------------------------------
(* Document host: the WordInserter *)

WordMaxCalls == 2    \* insertDiagram and updateDiagram calls started in one run

Picture(uid, alt) == [uid |-> uid, alt |-> alt]   \* alt: the id after 'MERMAID_ID:'

PictureUids == {pictures[i].uid : i \in 1..Len(pictures)}

\* selection.insertInlinePictureFromBase64(..., replace).  The selection is
\* the cursor or one picture: a selected picture is replaced by the new one,
\* otherwise the new one goes in at the cursor
InsertPicture(ps, sel, pic) ==
  IF sel # 0 /\ \E i \in 1..Len(ps) : ps[i].uid = sel
  THEN [i \in 1..Len(ps) |-> IF ps[i].uid = sel THEN pic ELSE ps[i]]
  ELSE Append(ps, pic)

WFinish(call, outcome, err) ==
  [call EXCEPT !.pc = "done", !.outcome = outcome, !.err = err]

\* an exit that forgets to leave insertion mode
ExitedModeStillInserting(w, removed) ==
  [w EXCEPT !.handlers = IF removed THEN 0 ELSE @, !.removeFailed = ~removed,
            !.cycle = "none"]

\* exitInsertionMode: the two fields are cleared first; removeHandlerAsync is
\* given no handler, so it removes every handler of the event type; when the
\* host reports a failure the promise is resolved all the same
ExitedMode(w, removed) ==
  [w EXCEPT !.insertionMode = FALSE, !.pending = FALSE, !.pendingCode = <<>>,
            !.handlers = IF removed THEN 0 ELSE @,
            !.removeFailed = ~removed,
            !.cycle = "none"]

\* enterInsertionMode: the two fields are set before addHandlerAsync is
\* called with a fresh bound function, which the host adds to its list
EnteredMode(w, code, added) ==
  [w EXCEPT !.insertionMode = TRUE, !.pending = TRUE, !.pendingCode = code,
            !.handlers = IF added THEN @ + 1 ELSE @,
            !.cycle = IF ~added THEN "none"
                      ELSE IF @ = "cancelled" THEN "restarted" ELSE "awaiting"]

InitWord ==
  /\ host = "Word"
  /\ parts \in {<<>>, <<ForeignBlock>>}
  /\ pictures = <<Picture(1, NoTag)>>
  /\ selPic = 0
  /\ wi = WordIdle
  /\ wcall = WCallIdle
  /\ nextId = 1
  /\ nextUid = 2
  /\ nCalls = 0
  /\ gsd = NoGsd
  /\ slides = [s \in 1..NumSlides |-> <<>>]
  /\ selSlide = 0
  /\ selShapes = {}
  /\ calls = [c \in Slots |-> IdleCall]
  /\ codec = CodecIdle
  /\ pane = PaneIdle
  /\ sizer = SizerIdle
  /\ matcher = MatcherIdle

WordIdleCall == wcall.pc \in {"idle", "done"}

SelectPicture(u) ==
  /\ host = "Word"
  /\ u # selPic
  /\ selPic' = u
  /\ gsd' = NoGsd
  /\ UNCHANGED <<host, parts, nextId, nextUid, nCalls, ppVars, wi, pictures,
                 wcall, codec, pane, sizer, matcher>>

\* WordInserter.insertDiagram.  api: checkWordApiSupport; svg: the content is
\* not empty and includes '<svg'; added: addHandlerAsync succeeded
WordInsertDiagram(code, api, svg, added) ==
  /\ host = "Word"
  /\ WordIdleCall
  /\ nCalls < WordMaxCalls
  /\ nCalls' = nCalls + 1
  /\ wi' = IF api /\ svg THEN EnteredMode(wi, code, added) ELSE wi
  /\ wcall' = LET call == [WCallIdle EXCEPT !.op = "insert", !.code = code]
              IN IF ~api THEN WFinish(call, "error", "unsupported")
                 ELSE IF ~svg THEN WFinish(call, "error", "invalidsvg")
                 ELSE IF ~added THEN WFinish(call, "error", "prepare")
                 ELSE WFinish(call, "awaiting", "none")
  /\ gsd' = NoGsd
  /\ UNCHANGED <<host, parts, nextId, nextUid, ppVars, pictures, selPic, codec, pane, sizer, matcher>>

\* an exit that rejects when the host refuses the removal
ExitOutcomeRejecting(removed) == IF removed THEN "success" ELSE "error"

\* how exitInsertionMode ends: the callback of removeHandlerAsync resolves the
\* promise on success and on failure, and a throw is caught and logged
ExitOutcome(removed) == "success"

\* WordInserter.exitInsertionMode
WordExitInsertionMode(removed) ==
  /\ host = "Word"
  /\ WordIdleCall
  /\ wi' = [ExitedMode(wi, removed) EXCEPT
              !.cycle = IF removed /\ wi.cycle \in {"awaiting", "restarted"}
                        THEN "cancelled" ELSE "none"]
  /\ wcall' = WFinish([WCallIdle EXCEPT !.op = "exit"], ExitOutcome(removed),
                      "none")
  /\ gsd' = NoGsd
  /\ UNCHANGED <<host, parts, nextId, nextUid, nCalls, ppVars, pictures,
                 selPic, codec, pane, sizer, matcher>>

\* a failed insertion that leaves the inserter as it was
StillAwaiting(w, removed) == w

\* insertAtCurrentPosition, catch of an error that is not
\* 'INSERTION_COMPLETE:': exitInsertionMode, then the error is rethrown
AfterFailedInsertion(w, removed) == ExitedMode(w, removed)

\* insertAtCurrentPosition up to storeDiagramMetadata, which runs in a
\* Word.run of its own and commits the block while the picture is still
\* queued in the outer context.
\*   r = "fail": a sync, the conversion or the add failed: nothing is
\*   written, exitInsertionMode, the error is rethrown;
\*   r = "verifyfail": the block was added and the load that follows the add
\*   in storeDiagramMetadata failed: the block stays, the picture is dropped
WordInsertAtStart(r, removed) ==
  /\ host = "Word"
  /\ WordIdleCall
  /\ LET call == [WCallIdle EXCEPT !.op = "insertAt"] IN
     IF ~wi.insertionMode \/ ~wi.pending
     THEN /\ wcall' = WFinish(call, "error", "notinmode")
          /\ UNCHANGED <<wi, parts, nextId>>
     ELSE IF r = "fail"
     THEN /\ wcall' = WFinish([call EXCEPT !.code = wi.pendingCode],
                              "error", "failed")
          /\ wi' = AfterFailedInsertion(wi, removed)
          /\ UNCHANGED <<parts, nextId>>
     ELSE /\ nextId <= MaxIds
          /\ parts' = Append(parts, BlockWord(nextId, wi.pendingCode))
          /\ nextId' = nextId + 1
          /\ IF r = "verifyfail"
             THEN /\ wcall' = WFinish([call EXCEPT !.id = nextId,
                                                   !.code = wi.pendingCode],
                                      "error", "failed")
                  /\ wi' = AfterFailedInsertion(wi, removed)
             ELSE /\ wcall' = [call EXCEPT !.pc = "w_sync", !.id = nextId,
                                          !.code = wi.pendingCode]
                  /\ UNCHANGED wi
  /\ gsd' = NoGsd
  /\ UNCHANGED <<host, nextUid, nCalls, ppVars, pictures, selPic, codec, pane, sizer, matcher>>

\* await context.sync() of performActualInsertion: the picture with its alt
\* text is committed; then 'INSERTION_COMPLETE:' is thrown, caught by
\* insertAtCurrentPosition, and exitInsertionMode runs on either way out
WordInsertAtSync(ok, removed) ==
  /\ wcall.pc = "w_sync"
  /\ pictures' = IF ok
                 THEN InsertPicture(pictures, selPic, Picture(nextUid, wcall.id))
                 ELSE pictures
  /\ nextUid' = IF ok THEN nextUid + 1 ELSE nextUid
  /\ selPic' = IF ok /\ selPic \in PictureUids THEN 0 ELSE selPic
  /\ wi' = IF ok THEN ExitedMode(wi, removed)
           ELSE AfterFailedInsertion(wi, removed)
  /\ wcall' = IF ok THEN WFinish(wcall, "success", "none")
              ELSE WFinish(wcall, "error", "failed")
  /\ gsd' = NoGsd
  /\ UNCHANGED <<host, parts, nextId, nCalls, ppVars, codec, pane, sizer, matcher>>

\* the scan of WordInserter.updateDiagram
WordUpdateIndex(ps, id) ==
  MinOrZero({i \in 1..Len(ps) : WordUpdateMatches(ps[i], id)})

\* WordInserter.updateDiagram up to storeDiagramMetadata: part.delete() is
\* queued in the outer context, the new block is committed by the inner one.
\*   r = "host": a sync before the scan failed; "fail": the conversion or
\*   the add failed after the scan; "verifyfail": the block was added and the
\*   load that follows the add failed, so the queued delete is dropped; "ok"
WordStartUpdate(id, code, r) ==
  /\ host = "Word"
  /\ WordIdleCall
  /\ nCalls < WordMaxCalls
  /\ nCalls' = nCalls + 1
  /\ LET call == [WCallIdle EXCEPT !.op = "update", !.id = id, !.code = code]
         i == WordUpdateIndex(parts, id)
     IN IF r = "host"
        THEN /\ wcall' = WFinish(call, "error", "host")
             /\ UNCHANGED parts
        ELSE IF i = 0
        THEN /\ wcall' = WFinish(call, "error", "notfound")
             /\ UNCHANGED parts
        ELSE IF r = "fail"
        THEN /\ wcall' = WFinish(call, "error", "failed")
             /\ UNCHANGED parts
        ELSE /\ parts' = Append(parts, BlockWord(id, code))
             /\ wcall' = IF r = "verifyfail"
                         THEN WFinish([call EXCEPT !.target = i], "error", "failed")
                         ELSE [call EXCEPT !.pc = "wu_sync", !.target = i]
  /\ gsd' = NoGsd
  /\ UNCHANGED <<host, nextId, nextUid, ppVars, wi, pictures, selPic, codec, pane, sizer, matcher>>

\* await context.sync() of updateDiagram: the queued delete of the old part
\* and the new picture (sized, no alt text) are committed together
WordUpdateSync(ok) ==
  /\ wcall.pc = "wu_sync"
  /\ parts' = IF ok THEN RemoveAt(parts, wcall.target) ELSE parts
  /\ pictures' = IF ok
                 THEN InsertPicture(pictures, selPic, Picture(nextUid, NoTag))
                 ELSE pictures
  /\ nextUid' = IF ok THEN nextUid + 1 ELSE nextUid
  /\ selPic' = IF ok /\ selPic \in PictureUids THEN 0 ELSE selPic
  /\ wcall' = IF ok THEN WFinish(wcall, "success", "none")
              ELSE WFinish(wcall, "error", "failed")
  /\ gsd' = NoGsd
  /\ UNCHANGED <<host, nextId, nCalls, ppVars, wi, codec, pane, sizer, matcher>>

\* WordInserter.getSelectedDiagram: the first selected inline picture, its
\* alt text, the first MermaidDiagram part with that Id whose Code the
\* regular expression matches; every error is turned into null
WordGetSelectedResult(ps, pics, sel, ok) ==
  IF ~ok \/ sel = 0 \/ ~\E i \in 1..Len(pics) : pics[i].uid = sel THEN GsdNull
  ELSE LET pic == CHOOSE x \in {pics[i] : i \in 1..Len(pics)} : x.uid = sel
           k == MinOrZero({j \in 1..Len(ps) : WordGetMatches(ps[j], pic.alt)})
       IN IF pic.alt = NoTag \/ k = 0 THEN GsdNull
          ELSE GsdFound(pic.alt, WordRegexCode(ps[k]))

WordGetSelectedDiagram ==
  /\ host = "Word"
  /\ \E ok \in BOOLEAN : gsd' = WordGetSelectedResult(parts, pictures, selPic, ok)
  /\ gsd' # gsd
  /\ UNCHANGED <<host, parts, nextId, nextUid, nCalls, ppVars, wordVars, codec, pane, sizer, matcher>>

NextWord ==
  \/ \E u \in PictureUids \cup {0} : SelectPicture(u)
  \/ \E code \in WordCodes, api \in BOOLEAN, svg \in BOOLEAN, added \in BOOLEAN :
       WordInsertDiagram(code, api, svg, added)
  \/ \E removed \in BOOLEAN : WordExitInsertionMode(removed)
  \/ \E r \in {"fail", "verifyfail", "ok"}, removed \in BOOLEAN :
       WordInsertAtStart(r, removed)
  \/ \E ok \in BOOLEAN, removed \in BOOLEAN : WordInsertAtSync(ok, removed)
  \/ \E id \in AllIds, r \in {"host", "fail", "verifyfail", "ok"} :
       WordStartUpdate(id, NewCode, r)
  \/ \E ok \in BOOLEAN : WordUpdateSync(ok)
  \/ WordGetSelectedDiagram

SpecWord == InitWord /\ [][NextWord]_vars

\* the host answers every context.sync(): the promise that
\* performActualInsertion awaits is settled, one way or the other
SpecWordFair ==
  SpecWord /\ WF_vars(\E ok \in BOOLEAN, removed \in BOOLEAN :
                        WordInsertAtSync(ok, removed))

----------------------------------------------------------------------------
(* Settings, the listing, and a deck whose diagrams come and go *)

MaxSaves == 2     \* saveSettings calls in one run

\* saveSettings' template
SettingsBlock(v) ==
  [Block("MermaidSettings", NoId, <<>>, "absent", FALSE, FALSE, TRUE)
     EXCEPT !.settings = v]

\* xmlContent.value.includes('<MermaidSettings>'): the text of the whole
\* block is searched, the source text of a diagram record included
HasSettingsTag(b) == b.root = "MermaidSettings" \/ Contains(b.code, SETTINGSTAG)

\* a test that looks at the root element only
HasSettingsRoot(b) == b.root = "MermaidSettings"

\* loadSettings: textContent || default for the strings,
\* parseInt(textContent || '16') || default for the font size
ReadSettings(v) ==
  [fontFamily |-> IF v.fontFamily = "" THEN defaultSettings.fontFamily
                  ELSE v.fontFamily,
   fontSize |-> IF v.fontSize = 0 THEN defaultSettings.fontSize ELSE v.fontSize]

\* loadSettings: the first part that could be read, holds the tag and has
\* the FontFamily, FontSize and PrimaryColor elements; the defaults when
\* there is none.  U: the parts whose getXml / sync threw (skipped)
LoadSettingsResult(ps, U) ==
  LET i == MinOrZero({k \in (1..Len(ps)) \ U :
                        HasSettingsTag(ps[k]) /\ ps[k].root = "MermaidSettings"})
  IN IF i = 0 THEN defaultSettings ELSE ReadSettings(ps[i].settings)

\* the parts of ps at the indices outside D, in order
WithoutParts(ps, D) ==
  LET keep(i) == i \notin D
      RECURSIVE Pick(_)
      Pick(i) == IF i > Len(ps) THEN <<>>
                 ELSE IF keep(i) THEN <<ps[i]>> \o Pick(i + 1)
                 ELSE Pick(i + 1)
  IN Pick(1)

\* a save that removes nothing before it adds
DeletesNothing(ps, U, final) == {}

\* saveSettings walks the parts from the last to the first; in each turn
\* getXml and a sync, then xmlPart.delete() is queued for a part that holds
\* the tag.  The delete of part i is committed by the sync of turn i - 1, the
\* delete of part 1 by the sync after the loop; a sync that fails commits
\* nothing of its batch.
DeletedBySave(ps, U, final) ==
  {i \in (1..Len(ps)) \ U :
     /\ HasSettingsTag(ps[i])
     /\ IF i = 1 THEN final ELSE (i - 1) \notin U}

\* handleSettingsChange: setSettings(newSettings), then saveSettings.
\*   loadfail  the load of customXmlParts failed
\*   syncfail  the sync after the loop failed
\*   addfail   the sync of customXmlParts.add failed
SaveSettings(v, r, U) ==
  /\ host = "PowerPoint"
  /\ \A c \in Slots : ~InFlight(c)
  /\ pane.saves < MaxSaves
  /\ U \subseteq 1..Len(parts)
  /\ r = "loadfail" => U = {}
  /\ LET D == DeletedBySave(parts, U, r \in {"addfail", "ok"})
         kept == IF r = "loadfail" THEN parts ELSE WithoutParts(parts, D)
     IN /\ parts' = IF r = "ok" THEN Append(kept, SettingsBlock(v)) ELSE kept
        /\ pane' = [pane EXCEPT
                      !.settings = v, !.op = "save", !.saves = @ + 1,
                      !.outcome = IF r = "ok" THEN "success" ELSE "error",
                      !.swallowed = U # {}, !.listed = 0]
  /\ gsd' = NoGsd
  /\ UNCHANGED <<host, nextId, nextUid, nCalls, ppVars, wordVars, codec, sizer, matcher>>

\* initializeMermaidAndSettings: loadSettings, setSettings(loadedSettings);
\* when loadSettings throws the settings state stays
LoadSettings(ok, U) ==
  /\ host = "PowerPoint"
  /\ U \subseteq 1..Len(parts)
  /\ ~ok => U = {}
  /\ pane' = [pane EXCEPT
                !.settings = IF ok THEN LoadSettingsResult(parts, U) ELSE @,
                !.op = "load",
                !.outcome = IF ok THEN "success" ELSE "error",
                !.swallowed = U # {}, !.listed = 0]
  /\ pane' # pane
  /\ gsd' = NoGsd
  /\ UNCHANGED <<host, parts, nextId, nextUid, nCalls, ppVars, wordVars, codec, sizer, matcher>>

\* listAllStoredDiagrams: mermaidDiagramCount, the parts that could be read
\* and parsed and have the MermaidDiagram root
ListAllStoredDiagrams(ok, lenient) ==
  /\ host = "PowerPoint"
  /\ pane' = [pane EXCEPT
                !.op = "list",
                !.outcome = IF ok THEN "success" ELSE "error",
                !.swallowed = FALSE,
                !.listed = IF ok
                           THEN Cardinality({i \in 1..Len(parts) :
                                  /\ IsDiagramRecord(parts[i])
                                  /\ WellFormed(parts[i]) \/ lenient})
                           ELSE 0]
  /\ pane' # pane
  /\ gsd' = NoGsd
  /\ UNCHANGED <<host, parts, nextId, nextUid, nCalls, ppVars, wordVars, codec, sizer, matcher>>

\* the user deletes a shape that carries a diagram id
DeleteShape(u) ==
  /\ host = "PowerPoint"
  /\ \A c \in Slots : ~InFlight(c)
  /\ \E sh \in AllShapes : sh.uid = u /\ sh.tag # NoTag
  /\ slides' = WithoutShape(slides, u)
  /\ selShapes' = selShapes \ {u}
  /\ calls' = Disturbed(calls, 0)
  /\ gsd' = NoGsd
  /\ UNCHANGED <<host, parts, selSlide, nextId, nextUid, nCalls, wordVars,
                 codec, pane, sizer, matcher>>

\* a deck with one diagram, which the first call of the session inserted;
\* its source text may quote the settings tag
InitSettings ==
  /\ host = "PowerPoint"
  /\ \E code \in {PlainCode, MarkerCode} :
       parts = <<BlockAfterInsertion(1, code, TRUE)>>
  /\ slides = [s \in 1..NumSlides |->
                IF s = 1 THEN <<Shape(1, NoTag, MovedGeo), Shape(2, 1, PlacedGeo)>>
                ELSE <<>>]
  /\ selSlide = 1
  /\ selShapes = {}
  /\ nextId = 2
  /\ nextUid = 3
  /\ calls = [c \in Slots |-> IdleCall]
  /\ nCalls = 1
  /\ gsd = NoGsd
  /\ wi = WordIdle
  /\ pictures = <<>>
  /\ selPic = 0
  /\ wcall = WCallIdle
  /\ codec = CodecIdle
  /\ pane = PaneIdle
  /\ sizer = SizerIdle
  /\ matcher = MatcherIdle

NextSettings ==
  \/ \E v \in PanelSettings, r \in {"loadfail", "syncfail", "addfail", "ok"},
        U \in SUBSET (1..Len(parts)) : SaveSettings(v, r, U)
  \/ \E ok \in BOOLEAN, U \in SUBSET (1..Len(parts)) : LoadSettings(ok, U)
  \/ \E ok \in BOOLEAN, lenient \in BOOLEAN : ListAllStoredDiagrams(ok, lenient)
  \/ \E u \in {sh.uid : sh \in AllShapes} : DeleteShape(u)
  \/ \E c \in SeqSlots : InsertStep(c)
  \/ \E c \in SeqSlots : UpdateStep(c)

SpecSettings == InitSettings /\ [][NextSettings]_vars

----------------------------------------------------------------------------
(* Platform selection: createDiagramInserter and the inserter it returns *)

MaxInserters == 2   \* inserters constructed in one run

\* Office.context.host as the task pane can find it: a host type, undefined
\* before Office is ready, or no Office object at all
OfficeHosts == {"PowerPoint", "Word", "Excel", "Outlook", "undefined"}
AnyHost == OfficeHosts \cup {"NoOffice"}

\* a detection that takes every host it does not know for PowerPoint
DetectDefaultingToPowerPoint(h) ==
  IF h = "Word" THEN "Word" ELSE "PowerPoint"

\* detectOfficePlatform
detectOfficePlatform(h) ==
  IF h = "NoOffice" THEN "Unknown"
  ELSE IF h = "PowerPoint" THEN "PowerPoint"
  ELSE IF h = "Word" THEN "Word"
  ELSE "Unknown"

\* createDiagramInserter: the inserter constructed, or the error thrown
createDiagramInserter(h) ==
  LET platform == detectOfficePlatform(h) IN
  IF platform = "PowerPoint"
    THEN [kind |-> "PowerPointInserter", constructed |-> 1, err |-> "none"]
  ELSE IF platform = "Word"
    THEN [kind |-> "WordInserter", constructed |-> 1, err |-> "none"]
  ELSE [kind |-> "none", constructed |-> 0, err |-> "unsupported"]

CreateDiagramInserter ==
  /\ pane.created < MaxInserters
  /\ LET r == createDiagramInserter(host) IN
     pane' = [pane EXCEPT
                !.op = "create",
                !.outcome = IF r.err = "none" THEN "success" ELSE "error",
                !.inserter = r.kind,
                !.created = @ + r.constructed]
  /\ pane' # pane
  /\ UNCHANGED <<host, parts, nextId, nextUid, nCalls, gsd, ppVars, wordVars,
                 codec, sizer, matcher>>

\* PowerPointInserter.insertDiagram delegates to insertDiagram
PowerPointInserterStep ==
  /\ pane.inserter = "PowerPointInserter"
  /\ \E c \in SeqSlots : InsertStep(c)

\* WordInserter: insertDiagram, exitInsertionMode, insertAtCurrentPosition
WordInserterStep ==
  /\ pane.inserter = "WordInserter"
  /\ \/ \E code \in WordCodes, api \in BOOLEAN, svg \in BOOLEAN, added \in BOOLEAN :
          WordInsertDiagram(code, api, svg, added)
     \/ \E removed \in BOOLEAN : WordExitInsertionMode(removed)
     \/ \E r \in {"fail", "verifyfail", "ok"}, removed \in BOOLEAN :
          WordInsertAtStart(r, removed)
     \/ \E ok \in BOOLEAN, removed \in BOOLEAN : WordInsertAtSync(ok, removed)

\* the task pane opened in any host, or in a browser without Office
InitFactory ==
  /\ host \in AnyHost
  /\ parts = <<>>
  /\ slides = [s \in 1..NumSlides |->
                IF host = "PowerPoint" /\ s = 1 THEN <<Shape(1, NoTag, MovedGeo)>>
                ELSE <<>>]
  /\ selSlide = IF host = "PowerPoint" THEN 1 ELSE 0
  /\ selShapes = {}
  /\ nextId = 1
  /\ nextUid = 2
  /\ calls = [c \in Slots |-> IdleCall]
  /\ nCalls = 0
  /\ gsd = NoGsd
  /\ wi = WordIdle
  /\ pictures = IF host = "Word" THEN <<Picture(1, NoTag)>> ELSE <<>>
  /\ selPic = 0
  /\ wcall = WCallIdle
  /\ codec = CodecIdle
  /\ pane = PaneIdle
  /\ sizer = SizerIdle
  /\ matcher = MatcherIdle

NextFactory ==
  \/ CreateDiagramInserter
  \/ PowerPointInserterStep
  \/ WordInserterStep

SpecFactory == InitFactory /\ [][NextFactory]_vars

----------------------------------------------------------------------------
(* The record encoding: a source text is written into a block by one of the *)
(* templates and read back by the host's decoder.                          *)

\* getDiagramData: the first part whose Id element reads id; its Code
\* element's textContent, null when there is no such part or no Code element
GetDiagramData(ps, id, lenient) ==
  LET i == MinOrZero({k \in 1..Len(ps) : DomId(ps[k], lenient) = id})
  IN IF i = 0 THEN NoCode ELSE DomCode(ps[i], lenient)

\* the Code that WordInserter.getSelectedDiagram returns for alt text id
WordGetCode(ps, id) ==
  LET k == MinOrZero({j \in 1..Len(ps) : WordGetMatches(ps[j], id)})
  IN IF k = 0 THEN NoCode ELSE WordRegexCode(ps[k])

InitCodec ==
  /\ host \in {"PowerPoint", "Word"}
  /\ codec \in [text : Texts, pc : {"text"}, read : {NoCode}]
  /\ parts = <<>>
  /\ slides = [s \in 1..NumSlides |-> <<>>]
  /\ selSlide = 0
  /\ selShapes = {}
  /\ nextId = 1
  /\ nextUid = 1
  /\ calls = [c \in Slots |-> IdleCall]
  /\ nCalls = 0
  /\ gsd = NoGsd
  /\ wi = WordIdle
  /\ pictures = <<>>
  /\ selPic = 0
  /\ wcall = WCallIdle
  /\ pane = PaneIdle
  /\ sizer = SizerIdle
  /\ matcher = MatcherIdle

\* customXmlParts.add of the block the host's template builds for the text.
\* A block that is not well-formed XML is stored as given or refused.
CodecPut(accepted) ==
  /\ codec.pc = "text"
  /\ LET b == IF host = "Word" THEN BlockWord(nextId, codec.text)
              ELSE BlockAfterInsertion(nextId, codec.text, TRUE)
     IN IF accepted \/ WellFormed(b)
        THEN /\ parts' = Append(parts, b)
             /\ codec' = [codec EXCEPT !.pc = "stored"]
        ELSE /\ codec' = [codec EXCEPT !.pc = "refused"]
             /\ UNCHANGED parts
  /\ UNCHANGED <<host, nextId, nextUid, nCalls, gsd, ppVars, wordVars, pane, sizer, matcher>>

\* getDiagramData(id) on the presentation host
CodecGetPowerPoint(lenient) ==
  /\ host = "PowerPoint"
  /\ codec.pc = "stored"
  /\ codec' = [codec EXCEPT !.pc = "read",
                            !.read = GetDiagramData(parts, nextId, lenient)]
  /\ UNCHANGED <<host, parts, nextId, nextUid, nCalls, gsd, ppVars, wordVars, pane, sizer, matcher>>

\* the read of WordInserter.getSelectedDiagram on the document host
CodecGetWord ==
  /\ host = "Word"
  /\ codec.pc = "stored"
  /\ codec' = [codec EXCEPT !.pc = "read", !.read = WordGetCode(parts, nextId)]
  /\ UNCHANGED <<host, parts, nextId, nextUid, nCalls, gsd, ppVars, wordVars, pane, sizer, matcher>>

NextCodec ==
  \/ \E accepted \in BOOLEAN : CodecPut(accepted)
  \/ \E lenient \in BOOLEAN : CodecGetPowerPoint(lenient)
  \/ CodecGetWord

SpecCodec == InitCodec /\ [][NextCodec]_vars

----------------------------------------------------------------------------
(* Presentation host: the storage test of the debug panel *)

TestId == MaxIds + 2      \* 'test_' + Date.now(): no diagram id looks like it
TestCode == PlainCode     \* 'graph TD\n  A[Test] --> B[Storage]'

\* testDiagramStorage: storeDiagramDataAfterInsertion(testId, testCode) with
\* no image placed before it: after the wait the last shape of the first
\* selected slide is tagged with testId and the record is added; r as in
\* InsertStore.  The test is run once.
TestDiagramStorage(r) ==
  /\ host = "PowerPoint"
  /\ \A c \in Slots : ~InFlight(c)
  /\ RecordsOf(parts, TestId) = {}
  /\ pane.op # "test"
  /\ LET canTag == selSlide # 0 /\ slides[selSlide] # <<>>
         tagOk == canTag /\ r \in {"tag_add", "tag_addfail"}
         addOk == r \in {"tag_add", "throw_add"}
     IN /\ slides' = IF tagOk THEN TagLastShape(slides, selSlide, TestId)
                     ELSE slides
        /\ parts' = IF addOk
                    THEN Append(parts, BlockAfterInsertion(TestId, TestCode, tagOk))
                    ELSE parts
        /\ pane' = [pane EXCEPT !.op = "test",
                                !.outcome = IF addOk THEN "success" ELSE "error"]
  /\ gsd' = NoGsd
  /\ UNCHANGED <<host, nCalls, selSlide, selShapes, calls, nextId, nextUid,
                 wordVars, codec, sizer, matcher>>

NextTest ==
  \/ UserStep
  \/ GetSelectedDiagram
  \/ \E ok \in BOOLEAN, lenient \in BOOLEAN : ListAllStoredDiagrams(ok, lenient)
  \/ \E r \in {"readfail", "tag_add", "tag_addfail", "throw_add", "throw_addfail"} :
       TestDiagramStorage(r)

SpecTest == InitMove /\ [][NextTest]_vars

----------------------------------------------------------------------------
(* Document host: the size planner and the rasterizer of the WordInserter. *)
(* Lengths are points.  The code computes in doubles; the model computes   *)
(* in exact fractions num/den, which give the same rounded results for     *)
(* every value drawn here.                                                 *)

MaxSvg == 6     \* viewBox widths and heights 1..MaxSvg, besides 600 and 800

minSize == 144  \* 2 inches

\* what getDocumentPageDimensions answers: US Letter with 1" margins
getDocumentPageDimensions ==
  [pageWidth |-> 612, pageHeight |-> 792, marginLeft |-> 72,
   marginRight |-> 72, marginTop |-> 72, marginBottom |-> 72]

\* the arguments the planner is run on: the page of
\* getDocumentPageDimensions, and smaller pages and margins
SvgDims == (1..MaxSvg) \cup {600, 800}
PageWidths == {getDocumentPageDimensions.pageWidth, 216, 144}
PageHeights == {getDocumentPageDimensions.pageHeight, 216, 144}
Margins == {36, getDocumentPageDimensions.marginLeft}
NaturalDims == {0, 300}   \* naturalWidth, naturalHeight of the decoded image

\* Math.round(n / d) for d > 0: the nearest integer, a half goes up
Round(n, d) == (2 * n + d) \div (2 * d)

Abs(x) == IF x < 0 THEN 0 - x ELSE x

\* targetWidth = wn / wd, targetHeight = hn / hd
Target(wn, wd, hn, hd) == [wn |-> wn, wd |-> wd, hn |-> hn, hd |-> hd]

\* svgAspectRatio > availableAspectRatio.  A zero availableHeight makes the
\* right side Infinity, -Infinity or NaN
WiderThanAvailable(svgWidth, svgHeight, availableWidth, availableHeight) ==
  IF availableHeight > 0
    THEN svgWidth * availableHeight > availableWidth * svgHeight
  ELSE IF availableHeight < 0
    THEN svgWidth * availableHeight < availableWidth * svgHeight
  ELSE availableWidth < 0

\* a planner that always fits to the width
FitToWidthTarget(svgWidth, svgHeight, availableWidth, availableHeight) ==
  Target(availableWidth, 1, availableWidth * svgHeight, svgWidth)

\* fit to width: targetHeight = targetWidth / svgAspectRatio; fit to height:
\* targetWidth = targetHeight * svgAspectRatio
FittedTarget(svgWidth, svgHeight, availableWidth, availableHeight) ==
  IF WiderThanAvailable(svgWidth, svgHeight, availableWidth, availableHeight)
  THEN Target(availableWidth, 1, availableWidth * svgHeight, svgWidth)
  ELSE Target(availableHeight * svgWidth, svgHeight, availableHeight, 1)

\* a planner without the minimum size
NeverBelowMinimum(t) == FALSE

\* targetWidth < minSize && targetHeight < minSize
BelowMinimum(t) == t.wn < minSize * t.wd /\ t.hn < minSize * t.hd

\* a minimum that is put on each axis
MinimumOnBothAxes(svgWidth, svgHeight) == Target(minSize, 1, minSize, 1)

\* the minimum size: minSize on the longer axis of the diagram
MinimumTarget(svgWidth, svgHeight) ==
  IF svgWidth > svgHeight
  THEN Target(minSize, 1, minSize * svgHeight, svgWidth)
  ELSE Target(minSize * svgWidth, svgHeight, minSize, 1)

calculateOptimalDiagramSize(svgWidth, svgHeight, pageWidth, pageHeight, marginLeft, marginRight, marginTop, marginBottom) ==
  LET availableWidth == pageWidth - marginLeft - marginRight
      availableHeight == pageHeight - marginTop - marginBottom
      fit == FittedTarget(svgWidth, svgHeight, availableWidth, availableHeight)
      t == IF BelowMinimum(fit) THEN MinimumTarget(svgWidth, svgHeight) ELSE fit
  IN [width |-> Round(t.wn, t.wd), height |-> Round(t.hn, t.hd)]

\* a rasterizer that sizes the canvas as svgToPng does: twice the decoded
\* image, nothing painted below it
RasterAtNaturalSize(targetDisplayWidth, targetDisplayHeight, naturalWidth, naturalHeight) ==
  [width |-> 2 * naturalWidth, height |-> 2 * naturalHeight,
   background |-> "transparent"]

\* img.onload of convertSvgToPngForWord: pixelsPerPoint = 300 / 72, the
\* canvas is Math.round(target * pixelsPerPoint) each way and filled white;
\* the viewBox and the natural size are read and only logged
convertSvgToPngForWord(targetDisplayWidth, targetDisplayHeight, naturalWidth, naturalHeight) ==
  [width |-> Round(targetDisplayWidth * 300, 72),
   height |-> Round(targetDisplayHeight * 300, 72),
   background |-> "white"]

NoPng == [width |-> 0, height |-> 0, background |-> "none"]

InitSize ==
  /\ host = "Word"
  /\ parts = <<>>
  /\ slides = [s \in 1..NumSlides |-> <<>>]
  /\ selSlide = 0
  /\ selShapes = {}
  /\ nextId = 1
  /\ nextUid = 1
  /\ calls = [c \in Slots |-> IdleCall]
  /\ nCalls = 0
  /\ gsd = NoGsd
  /\ wi = WordIdle
  /\ pictures = <<>>
  /\ selPic = 0
  /\ wcall = WCallIdle
  /\ codec = CodecIdle
  /\ pane = PaneIdle
  /\ matcher = MatcherIdle
  /\ \E sw \in SvgDims, sh \in SvgDims, pw \in PageWidths, ph \in PageHeights,
        ml \in Margins, mr \in Margins, mt \in Margins, mb \in Margins :
       sizer = [pc |-> "args", svgWidth |-> sw, svgHeight |-> sh,
                pageWidth |-> pw, pageHeight |-> ph,
                marginLeft |-> ml, marginRight |-> mr,
                marginTop |-> mt, marginBottom |-> mb,
                width |-> 0, height |-> 0,
                naturalWidth |-> 0, naturalHeight |-> 0, png |-> NoPng]

\* const optimalSize = this.calculateOptimalDiagramSize(...)
CalculateSize ==
  /\ sizer.pc = "args"
  /\ LET optimalSize ==
           calculateOptimalDiagramSize(sizer.svgWidth, sizer.svgHeight,
                                       sizer.pageWidth, sizer.pageHeight,
                                       sizer.marginLeft, sizer.marginRight,
                                       sizer.marginTop, sizer.marginBottom)
     IN sizer' = [sizer EXCEPT !.pc = "sized", !.width = optimalSize.width,
                               !.height = optimalSize.height]
  /\ UNCHANGED <<host, parts, nextId, nextUid, nCalls, gsd, ppVars, wordVars,
                 codec, pane, matcher>>

\* await this.convertSvgToPngForWord(svgContent, optimalSize.width,
\* optimalSize.height).  loaded: the image decoded (img.onload), otherwise
\* img.onerror rejects with 'Failed to load SVG image'
ConvertSvgToPng(loaded, naturalWidth, naturalHeight) ==
  /\ sizer.pc = "sized"
  /\ sizer' = IF loaded
              THEN [sizer EXCEPT
                      !.pc = "raster",
                      !.naturalWidth = naturalWidth,
                      !.naturalHeight = naturalHeight,
                      !.png = convertSvgToPngForWord(sizer.width, sizer.height,
                                                     naturalWidth, naturalHeight)]
              ELSE [sizer EXCEPT !.pc = "failed"]
  /\ UNCHANGED <<host, parts, nextId, nextUid, nCalls, gsd, ppVars, wordVars,
                 codec, pane, matcher>>

\* img.onload of svgToPng: the canvas is twice img.naturalWidth by twice
\* img.naturalHeight and is not filled; the markup's own width, height and
\* viewBox are not read
svgToPng(svgWidth, svgHeight, naturalWidth, naturalHeight) ==
  [width |-> 2 * naturalWidth, height |-> 2 * naturalHeight,
   background |-> "transparent"]

\* await svgToPng(svgContent) of the presentation host's insertDiagram and
\* updateDiagram, on markup that declares svgWidth x svgHeight.  The decoder
\* reports the declared size or another one; loaded = FALSE: img.onerror
\* rejects with 'Failed to load diagram image'
SvgToPng(loaded, naturalWidth, naturalHeight) ==
  /\ sizer.pc = "args"
  /\ sizer' = IF loaded
              THEN [sizer EXCEPT
                      !.pc = "natural",
                      !.naturalWidth = naturalWidth,
                      !.naturalHeight = naturalHeight,
                      !.png = svgToPng(sizer.svgWidth, sizer.svgHeight,
                                       naturalWidth, naturalHeight)]
              ELSE [sizer EXCEPT !.pc = "rejected"]
  /\ UNCHANGED <<host, parts, nextId, nextUid, nCalls, gsd, ppVars, wordVars,
                 codec, pane, matcher>>

NextSize ==
  \/ CalculateSize
  \/ \E loaded \in BOOLEAN, nw \in NaturalDims \cup {sizer.svgWidth},
        nh \in NaturalDims \cup {sizer.svgHeight} :
       SvgToPng(loaded, nw, nh)
  \/ \E loaded \in BOOLEAN, nw \in NaturalDims, nh \in NaturalDims :
       ConvertSvgToPng(loaded, nw, nh)

SpecSize == InitSize /\ [][NextSize]_vars

----------------------------------------------------------------------------
(* Presentation host: the geometry matcher.  A descriptor is the text      *)
(* `${left},${top},${width},${height}` that storeDiagramData writes into   *)
(* ShapeInfo; the matcher splits it at the commas and reads each piece     *)
(* with parseFloat.  It is modelled as the sequence of the numbers read.   *)

positionTolerance == 5

Lefts == {10, 12, 15, 16, 20}
Tops == {10, 11, 16}
Widths == {100, 140, 200, 201}
Heights == {100, 200, 201}

\* the ShapeInfo of a slide without shapes is the empty text: one piece
EmptyInfo == <<0>>

Infos ==
  {<<l, t, w, h>> : l \in Lefts, t \in Tops, w \in Widths, h \in Heights}
    \cup {EmptyInfo}

Min2(a, b) == IF a <= b THEN a ELSE b

Max2(a, b) == IF a <= b THEN b ELSE a

\* Math.abs(a - b) <= positionTolerance
PositionMatch(a, b) == Abs(a - b) <= positionTolerance

\* a size test that compares the first size with the second only
SizeMatchOneWay(a, b) == 2 * a >= b

\* Math.min(a, b) / Math.max(a, b) >= 1 - sizeTolerancePercent, which is 0.5;
\* 0 / 0 is NaN and compares false
SizeMatch(a, b) == Max2(a, b) > 0 /\ 2 * Min2(a, b) >= Max2(a, b)

shapesApproximatelyMatch(info1, info2) ==
  IF Len(info1) # 4 \/ Len(info2) # 4 THEN FALSE
  ELSE IF ~PositionMatch(info1[1], info2[1]) \/ ~PositionMatch(info1[2], info2[2])
    THEN FALSE
  ELSE IF ~SizeMatch(info1[3], info2[3]) \/ ~SizeMatch(info1[4], info2[4])
    THEN FALSE
  ELSE TRUE

InitMatch ==
  /\ host = "PowerPoint"
  /\ parts = <<>>
  /\ slides = [s \in 1..NumSlides |-> <<>>]
  /\ selSlide = 0
  /\ selShapes = {}
  /\ nextId = 1
  /\ nextUid = 1
  /\ calls = [c \in Slots |-> IdleCall]
  /\ nCalls = 0
  /\ gsd = NoGsd
  /\ wi = WordIdle
  /\ pictures = <<>>
  /\ selPic = 0
  /\ wcall = WCallIdle
  /\ codec = CodecIdle
  /\ pane = PaneIdle
  /\ sizer = SizerIdle
  /\ \E info1 \in Infos, info2 \in Infos :
       matcher = [pc |-> "args", info1 |-> info1, info2 |-> info2,
                  result |-> FALSE, swapped |-> FALSE]

\* the matcher called on the two descriptors, in both orders
ShapesApproximatelyMatch ==
  /\ matcher.pc = "args"
  /\ matcher' = [matcher EXCEPT
                   !.pc = "done",
                   !.result = shapesApproximatelyMatch(matcher.info1, matcher.info2),
                   !.swapped = shapesApproximatelyMatch(matcher.info2, matcher.info1)]
  /\ UNCHANGED <<host, parts, nextId, nextUid, nCalls, gsd, ppVars, wordVars,
                 codec, pane, sizer>>

NextMatch == ShapesApproximatelyMatch

SpecMatch == InitMatch /\ [][NextMatch]_vars

----------------------------------------------------------------------------
(* Properties *)

DoneInsert(k) == k.op = "insert" /\ k.pc = "done"

SelectedTag == ShapeByUid(CHOOSE u \in selShapes : TRUE).tag

\* C1: on the presentation host, after an insertDiagram that succeeded on the
\* primary placement path with the shape tagged and nothing interleaved, the
\* store holds a record for the new id with ShapeTagged true, and
\* getSelectedDiagram with exactly the placed shape selected returns that id
\* and the inserted source text.
C1_PrimaryInsertRecovers ==
  \A c \in Slots :
    LET k == calls[c] IN
    (DoneInsert(k) /\ k.outcome = "success" /\ k.path = "primary"
       /\ k.tagged /\ k.clean)
    => /\ \E i \in RecordsOf(parts, k.id) : parts[i].shapeTagged = "true"
       /\ selShapes = {k.placed}
            => \A lenient \in BOOLEAN :
                 GetSelectedDiagramResult("ok", "ok", lenient) = GsdFound(k.id, k.code)

\* C2: on both hosts, a source text written into a record and read back by
\* the record's id comes back exactly as it was written.
C2_RoundTrip ==
  codec.pc \in {"read", "refused"} => codec.read = codec.text

C4_NullUnlessOneResolved ==
  \A lenient \in BOOLEAN :
    LET r == GetSelectedDiagramResult("ok", "ok", lenient) IN
    /\ Cardinality(selShapes) # 1 => r = GsdNull
    /\ Cardinality(selShapes) = 1 /\ SelectedTag = NoTag => r = GsdNull
    /\ Cardinality(selShapes) = 1 /\ RecordsOf(parts, SelectedTag) = {}
         => r = GsdNull

\* C5: on the document host an insertDiagram step places nothing and ends
\* either awaiting placement, in insertion mode with one more handler
\* registered, or with an error for an unsupported host, an invalid SVG or a
\* refused handler; after exitInsertionMode the inserter is out of insertion
\* mode with nothing pending and, unless the host refused the removal, no
\* handler is left; this holds for every cycle.
C5_InsertStep ==
  (nCalls' = nCalls + 1 /\ wcall'.op = "insert")
  => /\ pictures' = pictures /\ parts' = parts
     /\ wcall'.pc = "done" /\ wcall'.outcome \in {"awaiting", "error"}
     /\ wcall'.outcome = "awaiting"
          => /\ wi'.insertionMode /\ wi'.pending
             /\ wi'.pendingCode = wcall'.code
             /\ wi'.handlers = wi.handlers + 1
     /\ wcall'.outcome = "error"
          => wcall'.err \in {"unsupported", "invalidsvg", "prepare"}

C5_Exited ==
  (wcall.op = "exit" /\ wcall.pc = "done")
  => /\ ~wi.insertionMode /\ ~wi.pending
     /\ ~wi.removeFailed => wi.handlers = 0

C5_TwoPhaseInsertion == [][C5_InsertStep]_vars /\ []C5_Exited

\* a second cycle: an insertDiagram awaiting placement after an exit that
\* removed the handler of the first
C5_Witness ==
  /\ wcall.op = "insert" /\ wcall.outcome = "awaiting"
  /\ wi.cycle = "restarted" /\ wi.handlers = 1 /\ wi.insertionMode

\* C6: on the document host the inserter never has more than one
\* selection-change handler registered, and none when it is not in insertion
\* mode (a removal the host refused aside).
C6_ListenerBalance ==
  /\ wi.handlers <= 1
  /\ ~wi.insertionMode /\ ~wi.removeFailed => wi.handlers = 0

OtherBlocks(ps, id) == SelectSeq(ps, LAMBDA b : b.id # id)

\* C7: an update of an id that has a record leaves exactly one record of that
\* id, with the new source text and UpdatedAt set, and every block of another
\* id as it was.
C7_UpdateStep ==
  (wcall.pc = "wu_sync" /\ IsDiagramRecord(parts[wcall.target])
     /\ wcall'.pc = "done" /\ wcall'.outcome = "success")
  => /\ Cardinality(RecordsOf(parts', wcall.id)) = 1
     /\ \A i \in RecordsOf(parts', wcall.id) :
          parts'[i].code = wcall.code /\ parts'[i].updatedAt
     /\ OtherBlocks(parts', wcall.id) = OtherBlocks(parts, wcall.id)

C7_UpdateLeavesOneUpdatedRecord == [][C7_UpdateStep]_vars

\* C8: an update of an id that has no record ends with a not-found error (or
\* with the error of a host round trip that failed before the scan) and
\* leaves the store's blocks as they were.
C8_UpdateStep ==
  (nCalls' = nCalls + 1 /\ wcall'.op = "update"
     /\ RecordsOf(parts, wcall'.id) = {})
  => /\ wcall'.pc = "done" /\ wcall'.outcome = "error"
     /\ wcall'.err \in {"notfound", "host"}
     /\ parts' = parts

C8_UpdateOfMissingIdFails == [][C8_UpdateStep]_vars

\* C9: no two records of the store carry the same id, in any state.
C9_IdUnique ==
  \A id \in AllIds : Cardinality(RecordsOf(parts, id)) <= 1

\* C10: an insert that placed an artifact and then failed to store its
\* record ends with the error that names both facts.
C10_PartialSuccessReported ==
  \A c \in Slots :
    (DoneInsert(calls[c]) /\ calls[c].persistFailed)
    => calls[c].outcome = "error" /\ calls[c].err = "composite"

\* what a finished insertDiagram went through: catch (apiError) was entered;
\* copyPngToClipboard was called
AltTried(k) == k.path \in {"alternate", "clipboard"} \/ k.err = "generic"

ClipTried(k) == k.path = "clipboard" \/ k.err = "generic"

\* C11: insertDiagram tries the primary placement, the alternate placement
\* and the clipboard copy in this order, the next one only when the one
\* before failed; it ends in the hard failure exactly when all three failed,
\* in success-with-instructions exactly when both placements failed and the
\* clipboard copy succeeded, and in plain success otherwise.
C11_StrategyOrder ==
  \A c \in Slots :
    LET k == calls[c]
        bothFailed == k.placed = 0 /\ k.placed2 = 0
    IN DoneInsert(k)
       => /\ AltTried(k) => k.placed = 0
          /\ ClipTried(k) => k.placed2 = 0
          /\ k.outcome = "error" <=> (bothFailed /\ k.err = "generic")
          /\ k.outcome = "instructions" <=> (bothFailed /\ k.path = "clipboard")
          /\ k.outcome = "success" <=> ~bothFailed

\* the shapes of a deck that carry the tag mermaid_diagram_id = id, each with
\* the slide it is on
TaggedAt(sl, id) ==
  UNION {{[slide |-> s, shape |-> sl[s][j]] :
            j \in {i \in 1..Len(sl[s]) : sl[s][i].tag = id}} :
         s \in 1..NumSlides}

\* C12: when updateDiagram(id, ...) ends as a success (nothing interleaved
\* with it), exactly one shape tagged id exists, it is on the slide the
\* replaced shape was on and has the left, top, width and height the replaced
\* shape had, whichever slide is selected.
C12_UpdateStep ==
  \A c \in Slots :
    (calls[c].pc = "u_retag" /\ calls[c].clean
       /\ calls'[c].pc = "done" /\ calls'[c].outcome = "success")
    => LET k == calls'[c]
           T == TaggedAt(slides', k.id)
       IN /\ Cardinality(T) = 1
          /\ \A t \in T : t.slide = k.targetSlide /\ t.shape.geo = k.targetGeo

C12_UpdateInPlace == [][C12_UpdateStep]_vars

ShapesOf(sl) == UNION {{sl[s][i] : i \in 1..Len(sl[s])} : s \in 1..NumSlides}

\* C13: when updateDiagram has deleted the old shape and the placement of the
\* new image then fails, the call ends with an error and the store is as it
\* was: the record of the id is there with the source text it had.
C13_UpdateStep ==
  \A c \in Slots :
    LET k == calls'[c] IN
    (nCalls' = nCalls + 1 /\ k.op = "update"
       /\ TaggedAt(slides, k.id) # {}
       /\ Cardinality(ShapesOf(slides')) < Cardinality(ShapesOf(slides)))
    => /\ k.pc = "done" /\ k.outcome = "error"
       /\ parts' = parts
       /\ \A i \in RecordsOf(parts, k.id) :
            i \in RecordsOf(parts', k.id) /\ parts'[i].code = parts[i].code

C13_RecordSurvivesFailedPlacement == [][C13_UpdateStep]_vars

\* an update that lost its shape to a failed placement, the record of its id
\* still in the store with the text of the insert
C13_Witness ==
  \E c \in Slots :
    /\ calls[c].op = "update" /\ calls[c].pc = "done"
    /\ calls[c].err = "placement" /\ calls[c].target # 0
    /\ TaggedAt(slides, calls[c].id) = {}
    /\ \E i \in RecordsOf(parts, calls[c].id) : parts[i].code # calls[c].code

\* a deck without the geometry of its shapes
NoGeo(sl) ==
  [s \in 1..NumSlides |->
     [i \in 1..Len(sl[s]) |-> [uid |-> sl[s][i].uid, tag |-> sl[s][i].tag]]]

\* C14: a move or a resize of a shape changes nothing in what
\* getSelectedDiagram returns or in the shape updateDiagram finds for an id; a
\* tagged shape is found by its id wherever it is and whatever its size.
C14_MoveStep ==
  (slides' # slides /\ NoGeo(slides') = NoGeo(slides))
  => /\ \A sel \in {"ok", "throws"}, store \in {"ok", "unreadable", "throws"},
           lenient \in BOOLEAN :
          GetSelectedDiagramResult(sel, store, lenient)'
            = GetSelectedDiagramResult(sel, store, lenient)
     /\ \A id \in AllIds :
          /\ TaggedSlide(id)' = TaggedSlide(id)
          /\ TaggedSlide(id) # 0 => TaggedShape(id)' = TaggedShape(id)
     /\ \A sh \in ShapesOf(slides') :
          sh.tag # NoTag => TaggedSlide(sh.tag)' # 0

C14_IdentityNotGeometry == [][C14_MoveStep]_vars

\* a diagram the user moved, updated where it was found and then resolved by
\* getSelectedDiagram with its shape selected
C14_Witness ==
  \E c \in Slots, u \in selShapes :
    /\ selShapes = {u}
    /\ ShapeByUid(u).geo = MovedGeo /\ ShapeByUid(u).tag = calls[c].id
    /\ calls[c].op = "update" /\ calls[c].outcome = "success"
    /\ calls[c].targetGeo = MovedGeo
    /\ gsd.kind = "found" /\ gsd.id = calls[c].id

\* C15: exitInsertionMode on an inserter that is not in insertion mode and
\* has nothing pending ends without error, leaves it out of insertion mode
\* with nothing pending, and changes neither the pictures of the document nor
\* the blocks of its store.
C15_ExitStep ==
  (wcall'.op = "exit" /\ ~wi.insertionMode /\ ~wi.pending)
  => /\ wcall'.pc = "done" /\ wcall'.outcome = "success"
     /\ ~wi'.insertionMode /\ ~wi'.pending /\ wi'.pendingCode = wi.pendingCode
     /\ pictures' = pictures /\ parts' = parts

C15_ExitIdempotent == [][C15_ExitStep]_vars

\* exitInsertionMode has run on an inserter that never entered insertion mode
C15_Witness ==
  /\ wcall.op = "exit" /\ wcall.pc = "done" /\ nCalls = 0
  /\ ~wi.insertionMode /\ ~wi.pending /\ wi.removeFailed
  /\ pictures = <<Picture(1, NoTag)>>

\* C16: insertAtCurrentPosition called while awaiting placement comes to an
\* end, and ends, on success and on failure, out of insertion mode with
\* nothing pending and (unless the host refused the removal) no
\* selection-change handler left; called when not in insertion mode it ends
\* with an error and leaves the inserter, the pictures and the store as they
\* were.
C16_InsertAtStep ==
  /\ (wcall' # wcall /\ wcall'.op = "insertAt" /\ wcall'.pc = "done"
        /\ (wcall.pc = "w_sync" \/ (wi.insertionMode /\ wi.pending)))
     => /\ ~wi'.insertionMode /\ ~wi'.pending
        /\ ~wi'.removeFailed => wi'.handlers = 0
  /\ (wcall' # wcall /\ wcall'.op = "insertAt" /\ wcall.pc # "w_sync"
        /\ ~(wi.insertionMode /\ wi.pending))
     => /\ wcall'.pc = "done" /\ wcall'.outcome = "error"
        /\ wi' = wi /\ pictures' = pictures /\ parts' = parts

C16_PhaseTwoEnds ==
  /\ [][C16_InsertAtStep]_vars
  /\ (wcall.op = "insertAt" /\ wcall.pc = "w_sync") ~> (wcall.pc = "done")

\* an insertAtCurrentPosition that failed after the wait for placement: out
\* of insertion mode, the listener gone
C16_Witness ==
  /\ wcall.op = "insertAt" /\ wcall.pc = "done" /\ wcall.outcome = "error"
  /\ wcall.err = "failed" /\ wcall.id # NoId
  /\ ~wi.insertionMode /\ ~wi.pending /\ wi.handlers = 0 /\ ~wi.removeFailed

\* C17: no step other than the end of an update of its id removes or alters
\* a DiagramRecord: an insert, the listing, loadSettings, saveSettings and
\* the user's deletion of a shape leave every record in the store as it was,
\* whatever its source text (getSelectedDiagram writes nothing: its step
\* leaves the store unchanged by construction).
C17_Step ==
  \A i \in 1..Len(parts) :
    IsDiagramRecord(parts[i])
    => \/ \E c \in Slots : /\ calls[c].pc = "u_retag" /\ calls'[c].pc = "done"
                           /\ calls[c].id = parts[i].id
       \/ \E j \in 1..Len(parts') : parts'[j] = parts[i]

C17_RecordsNeverDeleted == [][C17_Step]_vars

SettingsBlocks(ps) == {i \in 1..Len(ps) : ps[i].root = "MermaidSettings"}

C19_OneAtATime == Cardinality({c \in Slots : InFlight(c)}) <= 1

\* C20: createDiagramInserter returns the PowerPointInserter exactly when the
\* host is PowerPoint and the WordInserter exactly when it is Word; for every
\* other host, and without an Office object, it throws and no inserter is
\* constructed.
C20_PlatformSelection ==
  /\ pane.inserter = "PowerPointInserter" => host = "PowerPoint"
  /\ pane.inserter = "WordInserter" => host = "Word"
  /\ pane.op = "create"
     => /\ host = "PowerPoint"
             => pane.outcome = "success" /\ pane.inserter = "PowerPointInserter"
        /\ host = "Word"
             => pane.outcome = "success" /\ pane.inserter = "WordInserter"
        /\ host \notin {"PowerPoint", "Word"}
             => /\ pane.outcome = "error" /\ pane.inserter = "none"
                /\ pane.created = 0
                /\ parts = <<>> /\ calls = [c \in Slots |-> IdleCall]
                /\ wi = WordIdle

\* createDiagramInserter has thrown in a host that is neither PowerPoint nor
\* Word
C20_Witness ==
  /\ host = "Excel" /\ pane.op = "create" /\ pane.outcome = "error"
  /\ pane.inserter = "none" /\ pane.created = 0

\* C21: within one insert or update call the steps take effect in the order
\* rasterize, place, wait, tag, persist: the store never holds the record of
\* the id a call generated while the document holds no artifact for that id.
C21_PlacedBeforePersisted ==
  \A i \in 1..Len(parts) :
    (wcall.op = "insertAt" /\ wcall.id # NoId
       /\ IsDiagramRecord(parts[i]) /\ parts[i].id = wcall.id)
    => \E j \in 1..Len(pictures) : pictures[j].alt = wcall.id

\* C22: whichever placement succeeded, insertDiagram then tags the artifact it
\* placed with its id before it stores the record: after an insert that
\* ended well through the alternate placement, with nothing else acting in
\* between, the shape it placed carries the tag mermaid_diagram_id = id.
C22_TaggedAfterAnyPlacement ==
  \A c \in Slots :
    (calls[c].op = "insert" /\ calls[c].pc = "done" /\ calls[c].clean
       /\ calls[c].outcome = "success" /\ calls[c].path = "alternate")
    => \E sh \in AllShapes : sh.uid = calls[c].placed2 /\ sh.tag = calls[c].id

\* C23: when tags.add failed during an insert, the record stored for the id
\* holds the shape's left, top, width and height as its geometry hint.
C23_HintStoredWhenTagFails ==
  \A c \in Slots :
    (calls[c].op = "insert" /\ calls[c].pc = "done" /\ calls[c].tagThrew
       /\ calls[c].outcome = "success" /\ calls[c].path = "primary")
    => \A i \in RecordsOf(parts, calls[c].id) : parts[i].shapeInfo

\* C24: a record says shapeTagged = true only if the insert or update that
\* wrote it attached the tag for its id to a shape: after a call that ended
\* well and whose tagging step failed, no record of its id says true.
C24_ShapeTaggedTruthful ==
  \A c \in Slots :
    (calls[c].op \in {"insert", "update"} /\ calls[c].pc = "done"
       /\ calls[c].outcome = "success" /\ ~calls[c].tagged)
    => \A i \in RecordsOf(parts, calls[c].id) : parts[i].shapeTagged # "true"

\* C25: when svgToPng rejects during an insert or an update, the call does
\* not run it again and ends with the rasterizer's own error.
C25_RasterFailureFinal ==
  \A c \in Slots :
    (calls[c].rasterErr /\ calls[c].pc = "done")
    => calls[c].rasters = 1 /\ calls[c].outcome = "error"
         /\ calls[c].err = "render"

C26_Step ==
  \A i \in 1..Len(parts) :
    parts[i].root \notin {"MermaidDiagram", "MermaidSettings"}
    => \E j \in 1..Len(parts') : parts'[j] = parts[i]

\* C26: a block without the MermaidDiagram root is never taken for a diagram
\* record: no lookup returns its code as a diagram's source, and no update
\* matches and deletes it, even when its Id element holds the searched id.
C26_ForeignNeverMatched ==
  /\ [](gsd.kind = "found"
          => \E i \in 1..Len(parts) :
               IsDiagramRecord(parts[i]) /\ parts[i].id = gsd.id)
  /\ [][C26_Step]_vars

Sized == sizer.pc \in {"sized", "raster", "failed"}

availableWidth == sizer.pageWidth - sizer.marginLeft - sizer.marginRight

availableHeight == sizer.pageHeight - sizer.marginTop - sizer.marginBottom

PositiveArea == availableWidth > 0 /\ availableHeight > 0

\* width * svgHeight - height * svgWidth: zero when the returned size has
\* exactly the diagram's aspect ratio
AspectSkew == sizer.width * sizer.svgHeight - sizer.height * sizer.svgWidth

Fits ==
  /\ sizer.width <= availableWidth
  /\ sizer.height <= availableHeight
  /\ IF WiderThanAvailable(sizer.svgWidth, sizer.svgHeight,
                           availableWidth, availableHeight)
     THEN sizer.width = availableWidth
     ELSE sizer.height = availableHeight

\* the size fitted to the available area is below minSize on both axes, so
\* the minimum size is what the planner returns
Floored ==
  BelowMinimum(FittedTarget(sizer.svgWidth, sizer.svgHeight,
                            availableWidth, availableHeight))

NearestPixel(p, target) ==
  /\ 2 * 72 * p - 72 <= 2 * 300 * target
  /\ 2 * 300 * target < 2 * 72 * p + 72

\* C30: the raster convertSvgToPngForWord produces for the target display
\* size (Tw, Th) is round(Tw * 300 / 72) pixels wide and
\* round(Th * 300 / 72) pixels high, whatever the size of the decoded
\* image, and its background is opaque white.
C30_FixedDpiRaster ==
  sizer.pc = "raster"
  => /\ NearestPixel(sizer.png.width, sizer.width)
     /\ NearestPixel(sizer.png.height, sizer.height)
     /\ sizer.png.background = "white"

\* the Letter page's 468 x 351 points for an 800 x 600 diagram, rasterized
\* to 1950 x 1463 pixels from an image decoded at 300 x 300
C30_Witness ==
  /\ sizer.pc = "raster"
  /\ sizer.width = 468 /\ sizer.height = 351
  /\ sizer.naturalWidth = 300 /\ sizer.naturalHeight = 300
  /\ sizer.png.width = 1950 /\ sizer.png.height = 1463

\* C31: the raster svgToPng produces is twice the markup's declared width by
\* twice its declared height, also when the decoder reports another size.
C31_NaturalRasterFromDeclared ==
  sizer.pc = "natural"
  => /\ sizer.png.width = 2 * sizer.svgWidth
     /\ sizer.png.height = 2 * sizer.svgHeight

\* C32: for two descriptors (left, top, width, height) the matcher answers
\* true exactly when the lefts differ by at most 5, the tops differ by at
\* most 5, and on each of width and height the smaller value is at least
\* half the larger one; the answer is the same with the arguments swapped;
\* (10,10,100,100) matches (12,11,140,100) and not (20,10,100,100).
C32_ShapeMatcher ==
  (matcher.pc = "done" /\ Len(matcher.info1) = 4 /\ Len(matcher.info2) = 4)
  => LET a == matcher.info1
         b == matcher.info2
     IN /\ matcher.result
             <=> /\ a[1] - b[1] <= 5 /\ b[1] - a[1] <= 5
                 /\ a[2] - b[2] <= 5 /\ b[2] - a[2] <= 5
                 /\ 2 * Min2(a[3], b[3]) >= Max2(a[3], b[3])
                 /\ 2 * Min2(a[4], b[4]) >= Max2(a[4], b[4])
        /\ matcher.swapped = matcher.result
        /\ (a = <<10, 10, 100, 100>> /\ b = <<12, 11, 140, 100>>)
             => matcher.result
        /\ (a = <<10, 10, 100, 100>> /\ b = <<20, 10, 100, 100>>)
             => ~matcher.result

\* the matcher has answered true for (10,10,100,100) and (12,11,140,100)
C32_Witness ==
  /\ matcher.pc = "done" /\ matcher.result
  /\ matcher.info1 = <<10, 10, 100, 100>>
  /\ matcher.info2 = <<12, 11, 140, 100>>

\* C33: after a successful WordInserter.updateDiagram(id, newCode, svg) the
\* picture the update placed carries MERMAID_ID:id in its alt text, so that
\* getSelectedDiagram on it returns id with the new code.
C33_UpdatedPictureKeepsId ==
  (wcall.op = "update" /\ wcall.pc = "done" /\ wcall.outcome = "success"
     /\ wcall.id \in GenIds)
  => \E j \in 1..Len(pictures) :
       pictures[j].uid = nextUid - 1 /\ pictures[j].alt = wcall.id

\* C34: one insertDiagram call places at most one artifact: when the primary
\* placement made a shape, the alternate placement of the same call makes
\* none.
C34_AtMostOnePlacement ==
  \A c \in Slots :
    calls[c].op = "insert" => calls[c].placed = 0 \/ calls[c].placed2 = 0

\* what holds of a shape tagged with a diagram id whose record is found, over
\* a step that neither updates that diagram nor removes the shape
C35_Step ==
  \A sh \in AllShapes :
    LET found == GsdLookup(parts, sh.tag, FALSE) IN
    (/\ sh.tag \in GenIds
     /\ found.kind = "found"
     /\ \E s \in 1..NumSlides :
          \E j \in 1..Len(slides'[s]) : slides'[s][j].uid = sh.uid
     /\ ~\E c \in Slots : /\ calls'[c].op = "update" /\ calls'[c].id = sh.tag
                          /\ calls'[c] # calls[c])
    => /\ \A s \in 1..NumSlides :
            \A j \in 1..Len(slides'[s]) :
              slides'[s][j].uid = sh.uid => slides'[s][j].tag = sh.tag
       /\ GsdLookup(parts', sh.tag, FALSE) = found

\* C35: once an artifact carries tag X and the store holds source S for X,
\* every add-in operation that does not update X leaves the tag X on the
\* artifact and (X, S) recoverable from it; no operation puts another id on
\* a tagged artifact.
C35_IdentityStable == [][C35_Step]_vars

\* two insertDiagram calls, and no other call, ran interleaved and both
\* completed on the primary path with the shape tagging reported done
OverlappedInserts ==
  /\ nCalls = 2
  /\ \A c \in Slots : /\ calls[c].op = "insert"
                      /\ calls[c].pc = "done"
                      /\ calls[c].path = "primary"
                      /\ calls[c].tagged
  /\ \E c \in Slots : ~calls[c].clean

\* C36: when two insertDiagram calls overlapped (the second started before
\* the first had finished its wait and tagging) and both have completed on
\* the primary path with their shape tagged, the artifact each call placed
\* carries that call's id and the id's record is stored.
C36_OverlappingInsertsApart ==
  OverlappedInserts =>
    \A c \in Slots :
      /\ \E sh \in AllShapes : sh.uid = calls[c].placed /\ sh.tag = calls[c].id
      /\ RecordsOf(parts, calls[c].id) # {}

FailedEntry ==
  /\ ~wi.insertionMode
  /\ ~wi.pending
  /\ wcall'.op = "insert"
  /\ wcall'.pc = "done"
  /\ wcall'.outcome = "error"
  /\ nCalls' = nCalls + 1

\* C37: a WordInserter.insertDiagram that reports a failure (the Word API is
\* unsupported, the SVG is invalid, or the selection-change listener could
\* not be registered) on an inserter that was not in insertion mode leaves
\* it not in insertion mode and with no pending insertion.
C37_FailedEntryRolledBack ==
  [][FailedEntry => ~wi'.insertionMode /\ ~wi'.pending]_vars

====
